---------------------------- MODULE Spec2Model ----------------------------
(***************************************************************************)
(* EmailValidator (src/email_validator.py): the four-stage validation      *)
(* pipeline validate_email (format, blacklist, DNS, SMTP) and the batch    *)
(* operation validate_bulk, as a state machine; the validation loop of     *)
(* src/app.py; and the campaign and follow-up managers of                  *)
(* src/sendgrid_client.py (specifications SpecCampaign and SpecFollowup).  *)
(*                                                                         *)
(* Strings are sequences of one-character strings.  The DNS resolver and   *)
(* the SMTP client are collaborators: every query the code makes is        *)
(* answered by a nondeterministic choice among the outcomes the            *)
(* collaborator can produce (an answer, or one of its exceptions).         *)
(***************************************************************************)
EXTENDS Integers, Sequences, FiniteSets, TLC

VARIABLES
    enable_smtp,         \* self.enable_smtp
    timeout,             \* self.timeout
    disposable_domains,  \* self.disposable_domains
    invalid_domains,     \* self.invalid_domains
    pc,                  \* position inside validate_email ("idle" outside a call)
    caller,              \* who called validate_email: "none", "direct", "bulk" or "app"
    arg,                 \* the raw argument of the running/last validate_email call
    result,              \* validate_email's local `result` dict
    dns_result,          \* validate_dns's local `result` dict
    smtp_result,         \* validate_smtp's local `result` dict
    mx_record,           \* validate_smtp's local mx_record (host to connect to)
    pending,             \* exception propagating out of the `with` block, or NoExc
    sock,                \* whether the SMTP client holds an open connection
    log,                 \* collaborator operations performed by the current call
    ret,                 \* outcome of the last finished validate_email call
    bpc,                 \* position inside validate_bulk
    emails,              \* validate_bulk's argument
    i,                   \* validate_bulk's loop index (0-based, as enumerate)
    results,             \* validate_bulk's local `results` list
    sleeps,              \* number of time.sleep(0.5) calls of the running batch
    bulk_ret,            \* what validate_bulk returned (returned flag and list)
    earlier              \* history: one earlier call of the app loop (its argument, the
                         \* collaborators' answers, its result) and the arguments since

\* src/sendgrid_client.py: EmailCampaignManager and AutoReplyManager
VARIABLES
    clock,               \* time.time(), in ticks of 1/TICKS_PER_SECOND second
    followup_schedules,  \* AutoReplyManager.followup_schedules (keys in insertion order)
    schedule_calls,      \* history: the ids the schedule_followup calls returned, in order
    sent_history,        \* history: the follow-ups send_scheduled_followups has sent
    followup_ret,        \* what send_scheduled_followups returned, until time passes or
                         \* another call is made
    campaign             \* the last send_bulk_campaign call made by a caller, and its return

validatorVars == <<enable_smtp, timeout, disposable_domains, invalid_domains>>
callVars == <<pc, caller, arg, result, dns_result, smtp_result, mx_record, pending, sock, log, ret>>
bulkVars == <<bpc, emails, i, results, sleeps, bulk_ret>>
historyVars == <<earlier>>
validationVars == <<validatorVars, callVars, bulkVars, historyVars>>
mailVars == <<clock, followup_schedules, schedule_calls, sent_history, followup_ret, campaign>>
vars == <<validationVars, mailVars>>

-----------------------------------------------------------------------------
(* Bounds of the model. *)

\* longest string of the exhaustively enumerated inputs
MaxLen == 3
\* longest list handed to validate_bulk
MaxBulk == 2
\* most calls of the app loop between a remembered call and the one compared with it
MaxBetween == 1
\* resolution of the clock: ticks per second
TICKS_PER_SECOND == 2
\* most single ticks of the clock, and most jumps of a delay period after them
MaxTicks == 2
MaxJumps == 1
\* most schedule_followup calls, and longest list of recipients
MaxSchedules == 2
MaxRecipients == 2

-----------------------------------------------------------------------------
(* Program constants. *)

MAX_EMAIL_LEN == 254
MAX_LOCAL_LEN == 64
MAX_DOMAIN_LEN == 253
LABEL_MIDDLE_MAX == 61
DEFAULT_TIMEOUT == 10
CODE_OK == 250
CODE_REJECTED == 550
CODE_BYE == 221
HOURS_PER_DAY == 24
SECONDS_PER_HOUR == 3600
DEFAULT_DAYS_DELAY == 7

\* Python's None, for values that are otherwise sequences (texts, messages).
None == <<"None">>

-----------------------------------------------------------------------------
(* Characters and Python string methods. *)

Lowercase ==
    {"a","b","c","d","e","f","g","h","i","j","k","l","m",
     "n","o","p","q","r","s","t","u","v","w","x","y","z"}

ToLower ==
    ("A" :> "a") @@ ("B" :> "b") @@ ("C" :> "c") @@ ("D" :> "d") @@ ("E" :> "e") @@
    ("F" :> "f") @@ ("G" :> "g") @@ ("H" :> "h") @@ ("I" :> "i") @@ ("J" :> "j") @@
    ("K" :> "k") @@ ("L" :> "l") @@ ("M" :> "m") @@ ("N" :> "n") @@ ("O" :> "o") @@
    ("P" :> "p") @@ ("Q" :> "q") @@ ("R" :> "r") @@ ("S" :> "s") @@ ("T" :> "t") @@
    ("U" :> "u") @@ ("V" :> "v") @@ ("W" :> "w") @@ ("X" :> "x") @@ ("Y" :> "y") @@
    ("Z" :> "z")

Uppercase == DOMAIN ToLower

Digits == {"0","1","2","3","4","5","6","7","8","9"}

\* [a-z0-9]: the class without the upper-case letters
AlnumLowerOnly == Lowercase \cup Digits

\* [a-zA-Z0-9]
Alnum == Lowercase \cup Uppercase \cup Digits

\* the regex's local-part class: letters, digits and . ! # $ % & ' * + / = ? ^ _ ` { | } ~ -
\* (the backtick is written BACKTICK)
LocalChars ==
    Alnum \cup {".","!","#","$","%","&","'","*","+","/","=","?","^","_","BACKTICK","{","|","}","~","-"}

\* [a-zA-Z0-9-]
LabelChars == Alnum \cup {"-"}

\* characters str.strip() removes
Whitespace == {" ", "\t", "\n", "\r"}

\* str.lower()
lower(s) == [k \in 1..Len(s) |-> IF s[k] \in Uppercase THEN ToLower[s[k]] ELSE s[k]]

RECURSIVE lstrip(_)
lstrip(s) == IF s # <<>> /\ Head(s) \in Whitespace THEN lstrip(Tail(s)) ELSE s

RECURSIVE rstrip(_)
rstrip(s) ==
    IF s # <<>> /\ s[Len(s)] \in Whitespace THEN rstrip(SubSeq(s, 1, Len(s) - 1)) ELSE s

\* only the leading whitespace is removed
strip_left_only(s) == lstrip(s)

\* str.strip()
strip(s) == rstrip(lstrip(s))

\* str.rstrip(".")
RECURSIVE rstrip_dot(_)
rstrip_dot(s) ==
    IF s # <<>> /\ s[Len(s)] = "." THEN rstrip_dot(SubSeq(s, 1, Len(s) - 1)) ELSE s

\* s.split(sep): the pieces of s between the occurrences of the character sep
RECURSIVE split(_, _)
split(s, sep) ==
    IF \A k \in 1..Len(s) : s[k] # sep
    THEN <<s>>
    ELSE LET p == CHOOSE k \in 1..Len(s) : s[k] = sep /\ \A j \in 1..(k - 1) : s[j] # sep
         IN  <<SubSeq(s, 1, p - 1)>> \o split(SubSeq(s, p + 1, Len(s)), sep)

\* s.rsplit(sep, 1): split once, at the last occurrence of sep
rsplit1(s, sep) ==
    IF \A k \in 1..Len(s) : s[k] # sep
    THEN <<s>>
    ELSE LET p == CHOOSE k \in 1..Len(s) : s[k] = sep /\ \A j \in (k + 1)..Len(s) : s[j] # sep
         IN  <<SubSeq(s, 1, p - 1), SubSeq(s, p + 1, Len(s))>>

\* s.startswith(c), s.endswith(c) for a one-character c
startswith(s, c) == s # <<>> /\ s[1] = c
endswith(s, c) == s # <<>> /\ s[Len(s)] = c

\* ".." in s
has_dotdot_never(s) == FALSE

has_dotdot(s) == \E k \in 1..(Len(s) - 1) : s[k] = "." /\ s[k + 1] = "."

-----------------------------------------------------------------------------
(* validate_format *)

\* [a-zA-Z0-9](?:[a-zA-Z0-9-]{0,61}[a-zA-Z0-9])?
label_matches(l) ==
    /\ Len(l) >= 1
    /\ Len(l) <= LABEL_MIDDLE_MAX + 2
    /\ l[1] \in Alnum
    /\ l[Len(l)] \in Alnum
    /\ \A k \in 1..Len(l) : l[k] \in LabelChars

\* the regex between ^ and $: local part, one @, dot-separated labels
regex_body_matches(s) ==
    LET parts == split(s, "@") IN
    /\ Len(parts) = 2
    /\ parts[1] # <<>>
    /\ \A k \in 1..Len(parts[1]) : parts[1][k] \in LocalChars
    /\ LET labels == split(parts[2], ".") IN
       \A k \in 1..Len(labels) : label_matches(labels[k])

\* self.email_regex.match(email): $ also matches just before a final newline
email_regex_match(s) ==
    \/ regex_body_matches(s)
    \/ /\ endswith(s, "\n")
       /\ regex_body_matches(SubSeq(s, 1, Len(s) - 1))

validate_format(email) ==
    IF email = <<>> \/ Len(email) > MAX_EMAIL_LEN THEN FALSE
    ELSE IF ~email_regex_match(email) THEN FALSE
    ELSE LET local == rsplit1(email, "@")[1]
             domain == rsplit1(email, "@")[2]
         IN  IF Len(local) > MAX_LOCAL_LEN THEN FALSE
             ELSE IF startswith(local, ".") \/ endswith(local, ".") THEN FALSE
             ELSE IF has_dotdot(local) THEN FALSE
             ELSE IF Len(domain) > MAX_DOMAIN_LEN THEN FALSE
             ELSE IF startswith(domain, ".") \/ endswith(domain, ".") THEN FALSE
             ELSE IF has_dotdot(domain) THEN FALSE
             ELSE TRUE

-----------------------------------------------------------------------------
(* check_blacklist *)

VALIDATOR_DISPOSABLE_DOMAINS ==
    { <<"1","0","m","i","n","u","t","e","m","a","i","l",".","c","o","m">>,
      <<"g","u","e","r","r","i","l","l","a","m","a","i","l",".","c","o","m">>,
      <<"m","a","i","l","i","n","a","t","o","r",".","c","o","m">>,
      <<"t","e","m","p","-","m","a","i","l",".","o","r","g">>,
      <<"t","h","r","o","w","a","w","a","y",".","e","m","a","i","l">>,
      <<"g","e","t","n","a","d","a",".","c","o","m">>,
      <<"m","a","i","l","d","r","o","p",".","c","c">>,
      <<"t","e","m","p","m","a","i","l",".","e","m","a","i","l">>,
      <<"y","o","p","m","a","i","l",".","c","o","m">>,
      <<"d","i","s","p","o","s","t","a","b","l","e",".","c","o","m">>,
      <<"f","a","k","e","i","n","b","o","x",".","c","o","m">>,
      <<"s","p","a","m","b","o","x",".","u","s">> }

VALIDATOR_INVALID_DOMAINS ==
    { <<"e","x","a","m","p","l","e",".","c","o","m">>,
      <<"t","e","s","t",".","c","o","m">>,
      <<"d","o","m","a","i","n",".","c","o","m">>,
      <<"y","o","u","r","s","i","t","e",".","c","o","m">>,
      <<"y","o","u","r","d","o","m","a","i","n",".","c","o","m">>,
      <<"e","m","a","i","l",".","c","o","m">>,
      <<"l","o","c","a","l","h","o","s","t">> }

\* email.split("@")[1] raises IndexError when email holds no @
has_domain(email) == Len(split(email, "@")) >= 2
domain_of(email) == split(email, "@")[2]

check_blacklist(email, disposable, invalid) ==
    LET domain == lower(domain_of(email))
        is_disposable == domain \in disposable
        is_invalid_domain == domain \in invalid
    IN  [is_blacklisted |-> is_disposable \/ is_invalid_domain,
         is_disposable |-> is_disposable,
         is_invalid_domain |-> is_invalid_domain]

-----------------------------------------------------------------------------
(* Exceptions.  An exception is a record of its class and its str() text. *)

NoExc == [cls |-> "none", text |-> <<>>]

Exc(cls, text) == [cls |-> cls, text |-> <<text>>]

IndexError == Exc("IndexError", "list index out of range")
NXDOMAIN == Exc("dns.resolver.NXDOMAIN", "The DNS query name does not exist")
NoAnswer == Exc("dns.resolver.NoAnswer", "The DNS response does not contain an answer to the question")
DnsTimeout == Exc("dns.exception.Timeout", "The DNS operation timed out")
SocketTimeout == Exc("socket.timeout", "timed out")
GaiError == Exc("socket.gaierror", "[Errno -2] Name or service not known")
ConnectionRefused == Exc("ConnectionRefusedError", "[Errno 111] Connection refused")
SMTPConnectError == Exc("smtplib.SMTPConnectError", "(421, b'Service not available')")
SMTPServerDisconnected == Exc("smtplib.SMTPServerDisconnected", "Connection unexpectedly closed")
UnicodeDecodeError == Exc("UnicodeDecodeError", "'utf-8' codec can't decode byte: invalid start byte")

\* every class above derives from Exception
ExceptionClasses ==
    {"IndexError", "dns.resolver.NXDOMAIN", "dns.resolver.NoAnswer", "dns.exception.Timeout",
     "socket.timeout", "socket.gaierror", "ConnectionRefusedError", "smtplib.SMTPConnectError",
     "smtplib.SMTPServerDisconnected", "smtplib.SMTPResponseException", "UnicodeDecodeError"}

\* a narrower clause: except dns.exception.DNSException
except_DNSException(e) ==
    e.cls \in {"dns.resolver.NXDOMAIN", "dns.resolver.NoAnswer", "dns.exception.Timeout"}

\* whether the clause `except Exception as e` catches e
except_Exception(e) == e.cls \in ExceptionClasses

-----------------------------------------------------------------------------
(* The collaborators' outcomes. *)

\* an MX rdata: str(mx) is "<preference> <exchange>"
MX(pref, exch) == [preference |-> pref, exchange |-> exch]
mx_to_str(mx) == mx.preference \o <<" ">> \o mx.exchange

MX_HOST_1 == <<"m","x","1",".","n","e","t",".">>
MX_HOST_2 == <<"m","x","2",".","n","e","t",".">>

\* outcome of dns.resolver.resolve(domain, "MX"): a non-empty answer or an exception
MxAnswers ==
    { [rrset |-> <<MX(<<"1","0">>, MX_HOST_1)>>, exc |-> NoExc],
      [rrset |-> <<MX(<<"2","0">>, MX_HOST_2), MX(<<"1","0">>, MX_HOST_1)>>, exc |-> NoExc],
      [rrset |-> <<>>, exc |-> NXDOMAIN],
      [rrset |-> <<>>, exc |-> NoAnswer],
      [rrset |-> <<>>, exc |-> DnsTimeout] }

\* outcome of dns.resolver.resolve(domain, "A")
AAnswers ==
    { [rrset |-> <<"192.0.2.1">>, exc |-> NoExc],
      [rrset |-> <<>>, exc |-> NXDOMAIN],
      [rrset |-> <<>>, exc |-> NoAnswer],
      [rrset |-> <<>>, exc |-> DnsTimeout] }

\* outcome of server.connect(mx_record, 25)
ConnectOutcomes ==
    {NoExc, SocketTimeout, GaiError, ConnectionRefused, SMTPConnectError, SMTPServerDisconnected}

\* reply texts are bytes: sequences of numbers 0..255
BYTES_OK == <<79, 75>>
BYTES_LATIN1 == <<233, 99>>
ReplyTexts == {BYTES_OK, BYTES_LATIN1}

\* a reply code that is neither 250 nor 550 (greylisting)
CODE_TEMPFAIL == 451
ReplyCodes == {CODE_OK, CODE_REJECTED, CODE_TEMPFAIL}

\* outcome of server.helo / server.mail / server.rcpt: (code, response) or a lost connection
CommandOutcomes ==
    { [code |-> c, response |-> t, exc |-> NoExc] : c \in ReplyCodes, t \in ReplyTexts }
    \cup { [code |-> 0, response |-> <<>>, exc |-> SMTPServerDisconnected] }

\* outcome of the QUIT that SMTP.__exit__ sends on an open connection
QuitOutcomes ==
    { [code |-> CODE_BYE, response |-> BYTES_OK, exc |-> NoExc],
      [code |-> CODE_TEMPFAIL, response |-> BYTES_OK, exc |-> NoExc],
      [code |-> 0, response |-> <<>>, exc |-> SMTPServerDisconnected] }

\* The outcomes the collaborators produce while a batch runs: a smaller choice at each
\* query (every stage can still pass and fail), which keeps the lists of results of a
\* batch within what can be enumerated.  A direct call draws from the full sets.
BatchMxAnswers ==
    {a \in MxAnswers : Len(a.rrset) = 1 \/ a.exc \in {NXDOMAIN, DnsTimeout}}
BatchAAnswers == {a \in AAnswers : a.exc \in {NoExc, NXDOMAIN}}
BatchConnectOutcomes == {NoExc, SocketTimeout}
BatchHeloOutcomes ==
    {o \in CommandOutcomes : o.exc = NoExc /\ o.code = CODE_OK /\ o.response = BYTES_OK}
BatchRcptOutcomes ==
    {o \in CommandOutcomes : o.exc # NoExc \/ o.response = BYTES_OK}
BatchQuitOutcomes == {q \in QuitOutcomes : q.code = CODE_BYE}

\* bytes.decode(): UTF-8, strict.  One-byte (ASCII) and two-byte sequences are decoded;
\* any other lead byte is an error
RECURSIVE utf8_valid(_)
utf8_valid(b) ==
    IF b = <<>> THEN TRUE
    ELSE IF b[1] < 128 THEN utf8_valid(Tail(b))
    ELSE IF b[1] >= 194 /\ b[1] <= 223 /\ Len(b) >= 2 /\ b[2] >= 128 /\ b[2] <= 191
         THEN utf8_valid(Tail(Tail(b)))
    ELSE FALSE

RECURSIVE utf8_decode(_)
utf8_decode(b) ==
    IF b = <<>> THEN <<>>
    ELSE IF b[1] < 128 THEN <<b[1]>> \o utf8_decode(Tail(b))
    ELSE <<(b[1] - 192) * 64 + (b[2] - 128)>> \o utf8_decode(Tail(Tail(b)))

\* A str built by the code is a sequence of parts (an f-string concatenates them).
\* {response} in an f-string: the repr of the bytes
repr_bytes(b) ==
    IF b = BYTES_OK THEN "b'OK'" ELSE IF b = BYTES_LATIN1 THEN "b'<e9>c'" ELSE "b'...'"

\* {code} in an f-string: the str of the int
str_int(n) ==
    IF n = CODE_OK THEN "250" ELSE IF n = CODE_REJECTED THEN "550"
    ELSE IF n = CODE_TEMPFAIL THEN "451" ELSE IF n = CODE_BYE THEN "221" ELSE "<int>"

\* SMTPResponseException(code, message), raised by SMTP.__exit__ on a QUIT reply other than 221
SMTPResponseException(code, message) ==
    [cls |-> "smtplib.SMTPResponseException",
     text |-> <<"(", str_int(code), ", ", repr_bytes(message), ")">>]

-----------------------------------------------------------------------------
(* Values of the dicts the code builds. *)

\* smtp_valid is True, False or None
SV_TRUE == "True"
SV_FALSE == "False"
SV_NONE == "None"

\* smtp_response: None, or the decoded reply text
NoResponse == [is_none |-> TRUE, str |-> <<>>]
Response(t) == [is_none |-> FALSE, str |-> t]

\* a bool handed back by a function
Bool(b) == [bool |-> b]

\* a local variable outside its function
Unset == [unset |-> TRUE]

\* {} and d[k] = v
EmptyDict == [k \in {} |-> Unset]

\* d[k] = v that forgets the other keys of d
dict_replaced(d, k, v) == (k :> v)

dict_set(d, k, v) == (k :> v) @@ d

\* truth value of an Optional[str]
truthy(t) == t # None /\ t # <<>> /\ t # <<"">>

\* lines 239-248
new_result(email) ==
    [email |-> email,
     is_valid |-> FALSE,
     format_valid |-> FALSE,
     blacklist_check |-> FALSE,
     dns_valid |-> FALSE,
     smtp_valid |-> SV_NONE,
     error_message |-> None,
     validation_details |-> EmptyDict]

\* lines 127-132
new_dns_result == [has_mx |-> FALSE, has_a |-> FALSE, mx_records |-> <<>>, error |-> None]

\* lines 171-175
new_smtp_result == [smtp_valid |-> SV_FALSE, smtp_response |-> NoResponse, error |-> None]

\* line 167
smtp_disabled_result == [smtp_valid |-> SV_NONE, error |-> <<"SMTP validation disabled">>]

\* one collaborator operation and its outcome; timeout is <<>> when the call passes none
Event(op, target, what, tmo, out) ==
    [op |-> op, target |-> target, what |-> what, timeout |-> tmo, out |-> out]

\* the outcome of a DNS query, of connect, and of an SMTP command, as logged
dns_outcome(ans) == IF ans.exc = NoExc THEN "answer" ELSE ans.exc.cls
connect_outcome(o) == IF o = NoExc THEN "connected" ELSE o.cls
command_outcome(o) == IF o.exc = NoExc THEN str_int(o.code) ELSE o.exc.cls

-----------------------------------------------------------------------------
(* Inputs. *)

Alphabet == {"a", "A", ".", "@", "-", " "}

\* every string over Alphabet of length at most MaxLen
ShortStrings == UNION {[1..n -> Alphabet] : n \in 0..MaxLen}

IN_NOT_AN_EMAIL == <<"n","o","t","-","a","n","-","e","m","a","i","l">>
IN_DISPOSABLE == <<"u","s","e","r","@","m","a","i","l","i","n","a","t","o","r",".","c","o","m">>
IN_TEST_DOMAIN == <<"U","s","e","r","@","E","x","a","m","p","l","e",".","C","O","M"," ">>
IN_GOOD == <<"i","n","f","o","@","a","c","m","e",".","i","o">>
IN_GOOD_RAW == <<" ","B","o","b","@","A","c","m","e",".","i","o">>
IN_BOB == <<"b","o","b","@","a","c","m","e",".","i","o">>

\* n times the character c
Repeat(c, n) == [k \in 1..n |-> c]

\* strings at and around the limits of validate_format
FMT_LOCAL_AT_LIMIT == Repeat("a", MAX_LOCAL_LEN) \o <<"@", "a">>
FMT_LOCAL_OVER_LIMIT == Repeat("a", MAX_LOCAL_LEN + 1) \o <<"@", "a">>
FMT_LABEL_AT_LIMIT == <<"a", "@">> \o Repeat("a", LABEL_MIDDLE_MAX + 2)
FMT_LABEL_OVER_LIMIT == <<"a", "@">> \o Repeat("a", LABEL_MIDDLE_MAX + 3)
FMT_LONGEST ==
    Repeat("a", MAX_LOCAL_LEN) \o <<"@">> \o Repeat("a", LABEL_MIDDLE_MAX + 2) \o <<".">>
        \o Repeat("a", LABEL_MIDDLE_MAX + 2) \o <<".">>
        \o Repeat("a", MAX_EMAIL_LEN - MAX_LOCAL_LEN - 2 * LABEL_MIDDLE_MAX - 7)
FMT_TOO_LONG == FMT_LONGEST \o <<"a">>
FMT_DOTDOT == <<"a", ".", ".", "a", "@", "a">>
FMT_TWO_AT == <<"a", "@", "a", "@", "a">>
FMT_HYPHEN_FIRST == <<"a", "@", "a", ".", "-", "a">>
FMT_NEWLINE == <<"a", "@", "a", "\n">>
FMT_UPPER == <<"A", ".", "b", "@", "A", "-", "b", ".", "C">>

\* the strings handed to validate_format by its own callers, besides Inputs
FormatInputs ==
    {FMT_LOCAL_AT_LIMIT, FMT_LOCAL_OVER_LIMIT, FMT_LABEL_AT_LIMIT, FMT_LABEL_OVER_LIMIT,
     FMT_LONGEST, FMT_TOO_LONG, FMT_DOTDOT, FMT_TWO_AT, FMT_HYPHEN_FIRST, FMT_NEWLINE,
     FMT_UPPER}

NamedInputs == {IN_NOT_AN_EMAIL, IN_DISPOSABLE, IN_TEST_DOMAIN, IN_GOOD, IN_GOOD_RAW, IN_BOB}

\* the strings handed to validate_email
Inputs == ShortStrings \cup NamedInputs

\* the strings a batch is made of
BulkInputs == {IN_NOT_AN_EMAIL, IN_TEST_DOMAIN, IN_GOOD}

\* the lists handed to validate_bulk
BulkLists == UNION {[1..n -> BulkInputs] : n \in 0..MaxBulk}

\* the addresses the app loop validates
AppInputs == {IN_TEST_DOMAIN, IN_GOOD_RAW, IN_BOB}

\* no call remembered; a remembered call and the arguments of the calls since
NoEarlier == [set |-> FALSE]
Earlier(a, answers, value, since) ==
    [set |-> TRUE, arg |-> a, answers |-> answers, value |-> value, between |-> since]

\* no return value at hand; the list a call returned
NotReturned == [returned |-> FALSE]
Returned(v) == [returned |-> TRUE, value |-> v]

\* a dict whose iteration order matters: the keys in insertion order, and the values
EmptyOrderedDict == [keys |-> <<>>, val |-> EmptyDict]

\* the timeouts a validator is constructed with
Timeouts == {DEFAULT_TIMEOUT}

-----------------------------------------------------------------------------
(* EmailValidator.__init__ *)

Init ==
    /\ enable_smtp \in BOOLEAN
    /\ timeout \in Timeouts
    /\ disposable_domains = VALIDATOR_DISPOSABLE_DOMAINS
    /\ invalid_domains = VALIDATOR_INVALID_DOMAINS
    /\ pc = "idle"
    /\ caller = "none"
    /\ arg = <<>>
    /\ result = Unset
    /\ dns_result = Unset
    /\ smtp_result = Unset
    /\ mx_record = <<>>
    /\ pending = NoExc
    /\ sock = FALSE
    /\ log = <<>>
    /\ ret = [kind |-> "none", value |-> Unset]
    /\ bpc = "idle"
    /\ emails = <<>>
    /\ i = 0
    /\ results = <<>>
    /\ sleeps = 0
    /\ bulk_ret = [returned |-> FALSE, value |-> <<>>]
    /\ earlier = NoEarlier
    /\ clock = 0
    /\ followup_schedules = EmptyOrderedDict
    /\ schedule_calls = <<>>
    /\ sent_history = <<>>
    /\ followup_ret = NotReturned
    /\ campaign = [returned |-> FALSE]

-----------------------------------------------------------------------------
(* validate_email: the decisions of the pipeline. *)

\* the early return of line 255 left out
stage1_never_stops(res) == FALSE

\* line 253: if not result['format_valid']
stage1_stop(res) == ~res.format_valid

\* only the disposable flag is looked at
stage2_disposable_only(bl) == bl.is_disposable

\* line 262: if blacklist_result['is_blacklisted']
stage2_stop(bl) == bl.is_blacklisted

\* the generic message whatever the sub-flags
blacklist_message_generic(bl) == <<"Domain is blacklisted">>

\* lines 263-268
blacklist_message(bl) ==
    IF bl.is_disposable THEN <<"Disposable email address">>
    ELSE IF bl.is_invalid_domain THEN <<"Invalid/test domain">>
    ELSE <<"Domain is blacklisted">>

\* the stage stops only when the resolver reported an error
stage3_stop_on_error(res) ==
    ~res.dns_valid /\ res.validation_details["dns"].error # None

\* line 276: if not result['dns_valid']
stage3_stop(res) == ~res.dns_valid

\* line 277: dns_result.get('error', ...): the key is always present, so its value
dns_error_message(dr) == dr.error

\* the guard of line 281 left out: validate_smtp is always called
stage4_always(es) == TRUE

\* line 281: if self.enable_smtp
stage4_enabled(es) == es

\* line 286: if smtp_result['smtp_valid'] is False
stage4_stop(sr) == sr.smtp_valid = SV_FALSE

\* an address the loop has validated before is reported invalid
final_verdict_once(res) ==
    /\ res.format_valid
    /\ res.blacklist_check
    /\ res.dns_valid
    /\ res.smtp_valid # SV_FALSE
    /\ ~(earlier.set /\ earlier.value.email = res.email)

\* smtp_valid is tested for truth instead of `is not False`
final_verdict_truthy(res) ==
    /\ res.format_valid
    /\ res.blacklist_check
    /\ res.dns_valid
    /\ res.smtp_valid = SV_TRUE

\* lines 294-299
final_verdict(res) ==
    /\ res.format_valid
    /\ res.blacklist_check
    /\ res.dns_valid
    /\ res.smtp_valid # SV_FALSE

\* `return result` (lines 255, 269, 278, 288, 304): the locals go out of scope
Return(res) ==
    /\ ret' = [kind |-> "returned", value |-> res]
    /\ pc' = "returned"
    /\ result' = Unset
    /\ dns_result' = Unset
    /\ smtp_result' = Unset
    /\ mx_record' = <<>>
    /\ pending' = NoExc
    /\ sock' = FALSE

\* an exception e reaches validate_email's try block (lines 301-304); one that the
\* clause does not catch leaves validate_email
Except(res, e) ==
    IF except_Exception(e)
    THEN Return([res EXCEPT !.error_message = <<"Validation error: ">> \o e.text])
    ELSE /\ ret' = [kind |-> "raised", value |-> e]
         /\ pc' = "raised"
         /\ result' = Unset
         /\ dns_result' = Unset
         /\ smtp_result' = Unset
         /\ mx_record' = <<>>
         /\ pending' = NoExc
         /\ sock' = FALSE

\* the call goes on at position p
Continue(p, res, dr, sr, mx, pe, so) ==
    /\ pc' = p
    /\ result' = res
    /\ dns_result' = dr
    /\ smtp_result' = sr
    /\ mx_record' = mx
    /\ pending' = pe
    /\ sock' = so
    /\ UNCHANGED ret

\* lines 283-304: validate_smtp returned sr
smtp_returns(res, sr) ==
    LET r4 == [res EXCEPT !.smtp_valid = sr.smtp_valid,
                             !.validation_details = dict_set(@, "smtp", sr)]
    IN  IF stage4_stop(sr)
        THEN Return([r4 EXCEPT !.error_message = <<"Email address does not exist on server">>])
        ELSE LET r5 == IF truthy(sr.error)
                       THEN [r4 EXCEPT !.error_message = <<"SMTP check failed: ">> \o sr.error]
                       ELSE r4
             IN  Return([r5 EXCEPT !.is_valid = final_verdict(r5)])

\* lines 273-299: validate_dns returned dr
dns_returns(dr) ==
    LET r3 == [result EXCEPT !.dns_valid = dr.has_mx \/ dr.has_a,
                             !.validation_details = dict_set(@, "dns", dr)]
    IN  IF stage3_stop(r3)
        THEN Return([r3 EXCEPT !.error_message = dns_error_message(dr)])
        ELSE IF stage4_enabled(enable_smtp)
        THEN IF ~enable_smtp
             THEN smtp_returns(r3, smtp_disabled_result)
             ELSE Continue("smtp_mx", r3, Unset, new_smtp_result, <<>>, NoExc, FALSE)
        ELSE Return([r3 EXCEPT !.is_valid = final_verdict(r3)])

-----------------------------------------------------------------------------
(* validate_email, up to the first DNS query (lines 237-269, 125-132). *)

Begin(e, who) ==
    LET email == lower(strip(e))
        r1 == [new_result(email) EXCEPT !.format_valid = validate_format(email)]
    IN  /\ arg' = e
        /\ caller' = who
        /\ log' = <<>>
        /\ IF stage1_stop(r1)
           THEN Return([r1 EXCEPT !.error_message = <<"Invalid email format">>])
           ELSE IF ~has_domain(email)
           THEN Except(r1, IndexError)
           ELSE LET bl == check_blacklist(email, disposable_domains, invalid_domains)
                    r2 == [r1 EXCEPT !.blacklist_check = ~bl.is_blacklisted,
                                     !.validation_details = dict_set(@, "blacklist", bl)]
                IN  IF stage2_stop(bl)
                    THEN Return([r2 EXCEPT !.error_message = blacklist_message(bl)])
                    ELSE Continue("dns_mx", r2, new_dns_result, Unset, <<>>, NoExc, FALSE)

\* a caller other than validate_bulk calls validate_email(e)
validate_email(e) ==
    /\ pc = "idle"
    /\ bpc = "idle"
    /\ caller = "none"
    /\ Begin(e, "direct")
    /\ UNCHANGED <<mailVars, validatorVars, historyVars, bulkVars>>

validate_email_call == \E e \in Inputs : validate_email(e)

\* a caller calls validate_format(e) alone (the format-only mode of src/app.py)
validate_format_only(e) ==
    /\ pc = "idle"
    /\ bpc = "idle"
    /\ caller = "none"
    /\ arg' = e
    /\ caller' = "format"
    /\ log' = <<>>
    /\ ret' = [kind |-> "format", value |-> Bool(validate_format(e))]
    /\ pc' = "format_returned"
    /\ UNCHANGED <<result, dns_result, smtp_result, mx_record, pending, sock>>
    /\ UNCHANGED <<mailVars, validatorVars, historyVars, bulkVars>>

validate_format_call == \E e \in Inputs \cup FormatInputs : validate_format_only(e)

-----------------------------------------------------------------------------
(* validate_dns (lines 134-154), then validate_email from line 273. *)

\* every exception of a query is taken for "no such records"
no_records_any(e) == TRUE

\* lines 140, 148: except (dns.resolver.NXDOMAIN, dns.resolver.NoAnswer)
no_records(e) == e.cls \in {NXDOMAIN.cls, NoAnswer.cls}

\* lines 136-141, 151-152: the MX query
validate_dns_MX ==
    /\ pc = "dns_mx"
    /\ \E ans \in (IF caller # "direct" THEN BatchMxAnswers ELSE MxAnswers) :
        /\ log' = Append(log, Event("dns.resolver.resolve", domain_of(result.email), "MX", <<>>, dns_outcome(ans)))
        /\ IF ans.exc = NoExc
           THEN dns_returns([dns_result EXCEPT
                    !.has_mx = TRUE,
                    !.mx_records = [k \in 1..Len(ans.rrset) |-> mx_to_str(ans.rrset[k])]])
           ELSE IF no_records(ans.exc)
           THEN Continue("dns_a", result, [dns_result EXCEPT !.has_mx = FALSE],
                         Unset, <<>>, NoExc, FALSE)
           ELSE IF except_Exception(ans.exc)
           THEN dns_returns([dns_result EXCEPT !.error = ans.exc.text])
           ELSE Except(result, ans.exc)
    /\ UNCHANGED <<mailVars, validatorVars, historyVars, bulkVars, arg, caller>>

\* lines 144-152: the A query, made when no MX record was found
validate_dns_A ==
    /\ pc = "dns_a"
    /\ \E ans \in (IF caller # "direct" THEN BatchAAnswers ELSE AAnswers) :
        /\ log' = Append(log, Event("dns.resolver.resolve", domain_of(result.email), "A", <<>>, dns_outcome(ans)))
        /\ IF ans.exc = NoExc
           THEN dns_returns([dns_result EXCEPT !.has_a = TRUE])
           ELSE IF no_records(ans.exc)
           THEN dns_returns([dns_result EXCEPT !.has_a = FALSE])
           ELSE IF except_Exception(ans.exc)
           THEN dns_returns([dns_result EXCEPT !.error = ans.exc.text])
           ELSE Except(result, ans.exc)
    /\ UNCHANGED <<mailVars, validatorVars, historyVars, bulkVars, arg, caller>>

-----------------------------------------------------------------------------
(* validate_smtp (lines 166-225), then validate_email from line 283. *)

\* lines 210-223: the error text each except clause stores
smtp_error_text(e) ==
    IF e.cls = NXDOMAIN.cls THEN <<"No MX records found">>
    ELSE IF e.cls = NoAnswer.cls THEN <<"No MX records in DNS response">>
    ELSE IF e.cls = SocketTimeout.cls THEN <<"SMTP connection timeout">>
    ELSE IF e.cls = GaiError.cls THEN <<"DNS resolution error: ">> \o e.text
    ELSE IF e.cls = SMTPConnectError.cls THEN <<"SMTP connection error: ">> \o e.text
    ELSE IF e.cls = SMTPServerDisconnected.cls THEN <<"SMTP server disconnected">>
    ELSE <<"SMTP validation error: ">> \o e.text

\* the classes validate_smtp names in its except clauses before `except Exception`
SmtpNamedClasses ==
    {NXDOMAIN.cls, NoAnswer.cls, SocketTimeout.cls, GaiError.cls, SMTPConnectError.cls,
     SMTPServerDisconnected.cls}

\* exception e leaves validate_smtp's try block with the local result sr
smtp_raises(sr, e) ==
    IF e.cls \in SmtpNamedClasses \/ except_Exception(e)
    THEN smtp_returns(result, [sr EXCEPT !.error = smtp_error_text(e)])
    ELSE Except(result, e)

\* lines 179-183: the MX query of the SMTP stage, and entering the with block
validate_smtp_MX ==
    /\ pc = "smtp_mx"
    /\ \E ans \in (IF caller # "direct" THEN BatchMxAnswers ELSE MxAnswers) :
        /\ log' = Append(log, Event("dns.resolver.resolve", domain_of(result.email), "MX", <<>>, dns_outcome(ans)))
        /\ IF ans.exc = NoExc
           THEN Continue("smtp_connect", result, dns_result, smtp_result,
                         rstrip_dot(ans.rrset[1].exchange), NoExc, FALSE)
           ELSE smtp_raises(smtp_result, ans.exc)
    /\ UNCHANGED <<mailVars, validatorVars, historyVars, bulkVars, arg, caller>>

\* line 184: server.connect(mx_record, 25), under the timeout given to smtplib.SMTP
validate_smtp_connect ==
    /\ pc = "smtp_connect"
    /\ \E o \in (IF caller # "direct" THEN BatchConnectOutcomes ELSE ConnectOutcomes) :
        /\ log' = Append(log, Event("smtp.connect", mx_record, "25", <<timeout>>, connect_outcome(o)))
        /\ IF o = NoExc
           THEN Continue("smtp_helo", result, dns_result, smtp_result, mx_record, NoExc, TRUE)
           ELSE smtp_raises(smtp_result, o)
    /\ UNCHANGED <<mailVars, validatorVars, historyVars, bulkVars, arg, caller>>

\* every reply is taken for 250
command_accepted_always(code) == TRUE

\* lines 188, 194: `if code != 250` stops the dialogue; the next command is sent otherwise
command_accepted(code) == code = CODE_OK

\* lines 187-190: HELO
validate_smtp_helo ==
    /\ pc = "smtp_helo"
    /\ \E o \in (IF caller # "direct" THEN BatchHeloOutcomes ELSE CommandOutcomes) :
        /\ log' = Append(log, Event("smtp.helo", <<"example.com">>, "", <<timeout>>, command_outcome(o)))
        /\ IF o.exc # NoExc
           THEN smtp_raises(smtp_result, o.exc)
           ELSE IF ~command_accepted(o.code)
           THEN Continue("smtp_exit", result, dns_result,
                         [smtp_result EXCEPT !.error = <<"HELO failed: ", repr_bytes(o.response)>>],
                         mx_record, NoExc, TRUE)
           ELSE Continue("smtp_mail", result, dns_result, smtp_result, mx_record, NoExc, TRUE)
    /\ UNCHANGED <<mailVars, validatorVars, historyVars, bulkVars, arg, caller>>

\* lines 193-196: MAIL FROM
validate_smtp_mail ==
    /\ pc = "smtp_mail"
    /\ \E o \in (IF caller # "direct" THEN BatchHeloOutcomes ELSE CommandOutcomes) :
        /\ log' = Append(log, Event("smtp.mail", <<"test@example.com">>, "", <<timeout>>, command_outcome(o)))
        /\ IF o.exc # NoExc
           THEN smtp_raises(smtp_result, o.exc)
           ELSE IF ~command_accepted(o.code)
           THEN Continue("smtp_exit", result, dns_result,
                         [smtp_result EXCEPT !.error = <<"MAIL FROM failed: ", repr_bytes(o.response)>>],
                         mx_record, NoExc, TRUE)
           ELSE Continue("smtp_rcpt", result, dns_result, smtp_result, mx_record, NoExc, TRUE)
    /\ UNCHANGED <<mailVars, validatorVars, historyVars, bulkVars, arg, caller>>

\* smtp_valid holds the reply code itself
rcpt_verdict_code(sr, code, response) == [sr EXCEPT !.smtp_valid = str_int(code)]

\* lines 202-208: what the RCPT reply code makes of the result
rcpt_verdict(sr, code, response) ==
    IF code = CODE_OK THEN [sr EXCEPT !.smtp_valid = SV_TRUE]
    ELSE IF code = CODE_REJECTED THEN [sr EXCEPT !.smtp_valid = SV_FALSE]
    ELSE [sr EXCEPT !.smtp_valid = SV_NONE,
                    !.error = <<"Uncertain response: ", str_int(code), " ", repr_bytes(response)>>]

\* lines 199-208: RCPT TO; response.decode() raises on bytes that are not UTF-8
validate_smtp_rcpt ==
    /\ pc = "smtp_rcpt"
    /\ \E o \in (IF caller # "direct" THEN BatchRcptOutcomes ELSE CommandOutcomes) :
        /\ log' = Append(log, Event("smtp.rcpt", result.email, "", <<timeout>>, command_outcome(o)))
        /\ IF o.exc # NoExc
           THEN smtp_raises(smtp_result, o.exc)
           ELSE IF ~utf8_valid(o.response)
           THEN Continue("smtp_exit", result, dns_result, smtp_result, mx_record,
                         UnicodeDecodeError, TRUE)
           ELSE Continue("smtp_exit", result, dns_result,
                         rcpt_verdict([smtp_result EXCEPT
                                          !.smtp_response = Response(utf8_decode(o.response))],
                                      o.code, o.response),
                         mx_record, NoExc, TRUE)
    /\ UNCHANGED <<mailVars, validatorVars, historyVars, bulkVars, arg, caller>>

\* leaving the with block on an open connection (by return, by the end of the block,
\* or by an exception): SMTP.__exit__ sends QUIT, ignores a lost connection and raises
\* SMTPResponseException on a reply other than 221
validate_smtp_exit ==
    /\ pc = "smtp_exit"
    /\ \E q \in (IF caller # "direct" THEN BatchQuitOutcomes ELSE QuitOutcomes) :
        /\ log' = Append(log, Event("smtp.quit", mx_record, "", <<timeout>>, command_outcome(q)))
        /\ IF q.exc = NoExc /\ q.code # CODE_BYE
           THEN smtp_raises(smtp_result, SMTPResponseException(q.code, q.response))
           ELSE IF pending # NoExc
           THEN smtp_raises(smtp_result, pending)
           ELSE smtp_returns(result, smtp_result)
    /\ UNCHANGED <<mailVars, validatorVars, historyVars, bulkVars, arg, caller>>

-----------------------------------------------------------------------------
(* validate_bulk (lines 306-326) *)

\* lines 316-318: results = [], then the loop
validate_bulk(l) ==
    /\ pc = "idle"
    /\ bpc = "idle"
    /\ caller = "none"
    /\ emails' = l
    /\ results' = <<>>
    /\ i' = 0
    /\ sleeps' = 0
    /\ bpc' = "for"
    /\ UNCHANGED <<mailVars, validatorVars, historyVars, callVars, bulk_ret>>

validate_bulk_call == \E l \in BulkLists : validate_bulk(l)

\* lines 318-319: the next email of the list is handed to validate_email
validate_bulk_next ==
    /\ bpc = "for"
    /\ i < Len(emails)
    /\ Begin(emails[i + 1], "bulk")
    /\ bpc' = "in_call"
    /\ UNCHANGED <<mailVars, validatorVars, historyVars, emails, i, results, sleeps, bulk_ret>>

\* the loop sleeps after every email, the last one included
rate_limited_always(k, n) == TRUE

\* line 323: if i < len(emails) - 1
rate_limited(k, n) == k < n - 1

\* one dict is reused for every result: all entries of the list are the last result
bulk_appended_shared(rs, r) == [k \in 1..(Len(rs) + 1) |-> r]

\* a result is appended only if its address is not in the list yet
bulk_appended_unique(rs, r) ==
    IF \E k \in 1..Len(rs) : rs[k].email = r.email THEN rs ELSE Append(rs, r)

\* lines 320-324: the result is appended, and the loop sleeps unless this was the
\* last email; an exception leaving validate_email leaves validate_bulk too
bulk_appended(rs, r) == Append(rs, r)

validate_bulk_append ==
    /\ bpc = "in_call"
    /\ pc \in {"returned", "raised"}
    /\ IF ret.kind = "raised"
       THEN /\ bpc' = "raised"
            /\ UNCHANGED <<results, sleeps, i>>
       ELSE /\ results' = bulk_appended(results, ret.value)
            /\ sleeps' = IF rate_limited(i, Len(emails)) THEN sleeps + 1 ELSE sleeps
            /\ i' = i + 1
            /\ bpc' = "for"
    /\ pc' = "idle"
    /\ caller' = "none"
    /\ log' = <<>>
    /\ ret' = [kind |-> "none", value |-> Unset]
    /\ UNCHANGED <<mailVars, validatorVars, historyVars, emails, bulk_ret>>
    /\ UNCHANGED <<arg, result, dns_result, smtp_result, mx_record, pending, sock>>

\* line 326: return results
validate_bulk_return ==
    /\ bpc = "for"
    /\ i >= Len(emails)
    /\ bulk_ret' = [returned |-> TRUE, value |-> results]
    /\ bpc' = "returned"
    /\ UNCHANGED <<mailVars, validatorVars, historyVars, callVars, emails, i, results, sleeps>>

-----------------------------------------------------------------------------
(* The loop of src/app.py: one validator, validate_email called for one address after
   another, every result appended to validated_results. *)

\* the result of the call that ended is taken; the history remembers one call of the
\* loop, and the arguments of the calls that follow it
app_result_taken ==
    /\ bpc = "idle"
    /\ pc = "returned"
    /\ caller \in {"direct", "app"}
    /\ earlier.set => Len(earlier.between) < MaxBetween
    /\ \/ /\ earlier.set
          /\ earlier' = [earlier EXCEPT !.between = Append(@, arg)]
       \/ /\ ~earlier.set
          /\ earlier' = earlier
       \/ /\ ~earlier.set
          /\ caller = "app"
          /\ earlier' = Earlier(arg, log, ret.value, <<>>)
    /\ pc' = "idle"
    /\ caller' = "app"
    /\ arg' = <<>>
    /\ log' = <<>>
    /\ ret' = [kind |-> "none", value |-> Unset]
    /\ UNCHANGED <<mailVars, validatorVars, bulkVars>>
    /\ UNCHANGED <<result, dns_result, smtp_result, mx_record, pending, sock>>

\* the next address of the loop is handed to validate_email
app_validate_email(e) ==
    /\ bpc = "idle"
    /\ pc = "idle"
    /\ caller = "app"
    /\ Begin(e, "app")
    /\ UNCHANGED <<mailVars, validatorVars, historyVars, bulkVars>>

app_validate_email_call == \E e \in AppInputs : app_validate_email(e)

-----------------------------------------------------------------------------

Next ==
    \/ validate_email_call
    \/ validate_format_call
    \/ validate_dns_MX
    \/ validate_dns_A
    \/ validate_smtp_MX
    \/ validate_smtp_connect
    \/ validate_smtp_helo
    \/ validate_smtp_mail
    \/ validate_smtp_rcpt
    \/ validate_smtp_exit
    \/ validate_bulk_call
    \/ validate_bulk_next
    \/ validate_bulk_append
    \/ validate_bulk_return
    \/ app_result_taken
    \/ app_validate_email_call

Spec == Init /\ [][Next]_vars

-----------------------------------------------------------------------------
(* src/sendgrid_client.py: the clock, and the values of the two managers. *)

\* the ticks of days_delay days (line 190: days_delay * 24 * 3600 seconds)
delay_ticks(days_delay) == days_delay * HOURS_PER_DAY * SECONDS_PER_HOUR * TICKS_PER_SECOND

\* int(time.time())
int_time(t) == t \div TICKS_PER_SECOND

\* time passes: a tick, or DEFAULT_DAYS_DELAY days at once
Tick ==
    /\ \/ /\ clock < MaxTicks
          /\ clock' = clock + 1
       \/ /\ clock \div delay_ticks(DEFAULT_DAYS_DELAY) < MaxJumps
          /\ clock' = delay_ticks(DEFAULT_DAYS_DELAY) * (clock \div delay_ticks(DEFAULT_DAYS_DELAY) + 1)
    /\ followup_ret' = NotReturned
    /\ UNCHANGED <<followup_schedules, schedule_calls, sent_history, campaign>>
    /\ UNCHANGED validationVars

\* d[k] = v on a dict: a new key goes last, an existing key keeps its place
ordered_dict_set(d, k, v) ==
    [keys |-> IF \E j \in 1..Len(d.keys) : d.keys[j] = k THEN d.keys ELSE Append(d.keys, k),
     val |-> (k :> v) @@ d.val]

\* the addresses mail is sent to, and the lists of them
Recipients == {"ann@acme.io", "bob@acme.io"}
RecipientLists == UNION {[1..n -> Recipients] : n \in 0..MaxRecipients}

\* what self.sg.send(message) does: the message is accepted, or an exception is raised
SendOutcomes == {"accepted", "HTTP Error 401: Unauthorized"}

\* the content arguments of a campaign: (text_content, html_content), None as ""
Contents == {<<"", "<p>Hello</p>">>, <<"Hello", "">>, <<"", "">>}

FROM_EMAIL == "sales@acme.io"
SUBJECT == "Hello"

-----------------------------------------------------------------------------
(* EmailCampaignManager (lines 21-127) *)

\* lines 42-71: send_single_email; out is what self.sg.send does
send_single_email(to_email, text_content, html_content, out) ==
    IF html_content = "" /\ text_content = ""
    THEN [success |-> FALSE, error |-> "No email content provided"]
    ELSE IF out = "accepted"
    THEN [success |-> TRUE, status_code |-> "202", message |-> "Email sent successfully",
          to |-> to_email]
    ELSE [success |-> FALSE, error |-> out, to |-> to_email]

\* a failed send is counted but not listed
record_send_unlisted(totals, recipient, sent) ==
    IF sent.success
    THEN [totals EXCEPT !.total_sent = @ + 1,
                         !.successful_sends = Append(@, recipient)]
    ELSE [totals EXCEPT !.total_failed = @ + 1]

\* lines 113-121: the result of one send goes into the campaign's results
record_send(totals, recipient, sent) ==
    IF sent.success
    THEN [totals EXCEPT !.total_sent = @ + 1,
                         !.successful_sends = Append(@, recipient)]
    ELSE [totals EXCEPT !.total_failed = @ + 1,
                         !.failed_sends = Append(@, [email |-> recipient, error |-> sent.error])]

\* line 124: if i < len(recipients) - 1
campaign_rate_limited(k, n) == k < n - 1

\* lines 104-125: the loop from index k (0-based) on; run holds the results so far, the
\* recipients handed to send_single_email so far, and the number of sleeps
RECURSIVE campaign_loop(_, _, _, _, _, _)
campaign_loop(recipients, text_content, html_content, outs, k, run) ==
    IF k >= Len(recipients) THEN run
    ELSE LET recipient == recipients[k + 1]
             sent == send_single_email(recipient, text_content, html_content, outs[k + 1])
         IN  campaign_loop(recipients, text_content, html_content, outs, k + 1,
                 [results |-> record_send(run.results, recipient, sent),
                  attempts |-> Append(run.attempts, recipient),
                  sleeps |-> IF campaign_rate_limited(k, Len(recipients))
                             THEN run.sleeps + 1 ELSE run.sleeps])

\* lines 96-127: send_bulk_campaign called at time now
send_bulk_campaign(recipients, text_content, html_content, outs, now) ==
    campaign_loop(recipients, text_content, html_content, outs, 0,
        [results |-> [total_sent |-> 0,
                      total_failed |-> 0,
                      successful_sends |-> <<>>,
                      failed_sends |-> <<>>,
                      campaign_id |-> [prefix |-> "campaign_", n |-> int_time(now)]],
         attempts |-> <<>>,
         sleeps |-> 0])

\* a caller sends a campaign
send_bulk_campaign_call ==
    /\ \E recipients \in RecipientLists, content \in Contents,
          outs \in [1..MaxRecipients -> SendOutcomes] :
          campaign' =
              [returned |-> TRUE,
               recipients |-> recipients,
               run |-> send_bulk_campaign(recipients, content[1], content[2], outs, clock)]
    /\ UNCHANGED <<clock, followup_schedules, schedule_calls, sent_history, followup_ret>>
    /\ UNCHANGED validationVars

-----------------------------------------------------------------------------
(* AutoReplyManager (lines 158-218) *)

\* line 183: followup_id = f"followup_{int(time.time())}"
followup_id(now) == [prefix |-> "followup_", n |-> int_time(now)]

\* lines 185-192
followup_data(recipients, content, days_delay, now) ==
    [recipients |-> recipients,
     from_email |-> FROM_EMAIL,
     subject |-> SUBJECT,
     content |-> content,
     scheduled_for |-> now + delay_ticks(days_delay),
     status |-> "scheduled"]

\* the days_delay arguments of schedule_followup
DaysDelays == {0, DEFAULT_DAYS_DELAY}

\* lines 183-195
schedule_followup(recipients, content, days_delay) ==
    /\ Len(schedule_calls) < MaxSchedules
    /\ followup_schedules' =
          ordered_dict_set(followup_schedules, followup_id(clock),
                           followup_data(recipients, content, days_delay, clock))
    /\ schedule_calls' = Append(schedule_calls, followup_id(clock))
    /\ followup_ret' = NotReturned
    /\ UNCHANGED <<clock, sent_history, campaign>>
    /\ UNCHANGED validationVars

\* the recipients of the follow-ups
FollowupRecipients == <<"ann@acme.io", "bob@acme.io">>

schedule_followup_call ==
    \E days_delay \in DaysDelays :
        schedule_followup(FollowupRecipients, "<p>Hello again</p>", days_delay)

\* lines 203-204
followup_due(data, current_time) ==
    data.status = "scheduled" /\ current_time >= data.scheduled_for

\* lines 202-216: the loop over the items from position k on; run holds the dict, the
\* ids sent so far and the history
RECURSIVE followups_loop(_, _, _, _)
followups_loop(k, current_time, outs, run) ==
    IF k > Len(run.schedules.keys) THEN run
    ELSE LET id == run.schedules.keys[k]
             data == run.schedules.val[id]
         IN  IF followup_due(data, current_time)
             THEN LET sent == send_bulk_campaign(data.recipients, "", data.content, outs,
                                                 current_time)
                      data2 == ("results" :> sent.results) @@ [data EXCEPT !.status = "sent"]
                  IN  followups_loop(k + 1, current_time, outs,
                          [schedules |-> [run.schedules EXCEPT !.val = (id :> data2) @@ @],
                           sent_followups |-> Append(run.sent_followups, id),
                           history |-> Append(run.history,
                               [id |-> id, at |-> current_time,
                                scheduled_for |-> data.scheduled_for])])
             ELSE followups_loop(k + 1, current_time, outs, run)

\* lines 199-218
send_scheduled_followups ==
    /\ \E out \in SendOutcomes :
          LET outs == [k \in 1..Len(FollowupRecipients) |-> out]
              run == followups_loop(1, clock, outs,
                         [schedules |-> followup_schedules,
                          sent_followups |-> <<>>,
                          history |-> sent_history])
          IN  /\ followup_schedules' = run.schedules
              /\ followup_ret' = Returned(run.sent_followups)
              /\ sent_history' = run.history
    /\ UNCHANGED <<clock, schedule_calls, campaign>>
    /\ UNCHANGED validationVars

NextCampaign ==
    \/ Tick
    \/ send_bulk_campaign_call

SpecCampaign == Init /\ [][NextCampaign]_vars

NextFollowup ==
    \/ Tick
    \/ schedule_followup_call
    \/ send_scheduled_followups

SpecFollowup == Init /\ [][NextFollowup]_vars

-----------------------------------------------------------------------------
(* Vocabulary of the properties. *)

\* a validate_email call has ended, by returning or by raising
Ended == pc \in {"returned", "raised"}

\* the normalized argument of the call
Normalized == lower(strip(arg))

\* the positions of the log holding an operation named in ops
EventsOf(ops) == {k \in 1..Len(log) : log[k].op \in ops}

DnsOps == {"dns.resolver.resolve"}
SmtpOps == {"smtp.connect", "smtp.helo", "smtp.mail", "smtp.rcpt", "smtp.quit"}

\* outcomes of a DNS query that mean "no such records"
NoRecords == {NXDOMAIN.cls, NoAnswer.cls}

\* the keys of a result's validation_details
Details(r) == DOMAIN r.validation_details

\* the first three stages passed
ThreeStagesPassed(r) == r.format_valid /\ r.blacklist_check /\ r.dns_valid

-----------------------------------------------------------------------------
(* C1..C10 *)

\* C1: a call whose normalized argument fails the format stage returns
\* format_valid = false, is_valid = false, error_message = "Invalid email format",
\* and has made no blacklist check, no DNS lookup and no SMTP operation.
C1_FormatFailureStops ==
    (Ended /\ ~validate_format(Normalized)) =>
        /\ pc = "returned"
        /\ ret.value.format_valid = FALSE
        /\ ret.value.is_valid = FALSE
        /\ ret.value.error_message = <<"Invalid email format">>
        /\ Details(ret.value) = {}
        /\ log = <<>>

C1_Witness ==
    /\ pc = "returned"
    /\ arg = <<"a", "@", "-">>
    /\ ret.value.error_message = <<"Invalid email format">>

\* C2: a call whose argument passes the format stage and whose lower-cased domain is
\* in the disposable set or the invalid-domain set returns blacklist_check = false
\* and is_valid = false, with either value of enable_smtp, and has made no DNS lookup
\* and no SMTP operation.
C2_BlacklistedStops ==
    (/\ Ended
     /\ validate_format(Normalized)
     /\ lower(domain_of(Normalized)) \in disposable_domains \cup invalid_domains) =>
        /\ pc = "returned"
        /\ ret.value.blacklist_check = FALSE
        /\ ret.value.is_valid = FALSE
        /\ log = <<>>

C2_Witness ==
    /\ pc = "returned"
    /\ enable_smtp
    /\ arg = IN_TEST_DOMAIN
    /\ ret.value.format_valid
    /\ ret.value.blacklist_check = FALSE

\* C3: a call that passed format and blacklist and whose MX lookup and A lookup both
\* found no records returns dns_valid = false and is_valid = false, leaves smtp_valid
\* unknown and performs nothing after the two lookups (no SMTP stage), even with
\* enable_smtp true.
C3_UnresolvableStops ==
    (/\ Ended
     /\ Len(log) >= 2
     /\ log[1].op \in DnsOps /\ log[1].what = "MX" /\ log[1].out \in NoRecords
     /\ log[2].op \in DnsOps /\ log[2].what = "A" /\ log[2].out \in NoRecords) =>
        /\ pc = "returned"
        /\ ret.value.format_valid /\ ret.value.blacklist_check
        /\ ret.value.dns_valid = FALSE
        /\ ret.value.is_valid = FALSE
        /\ ret.value.smtp_valid = SV_NONE
        /\ "smtp" \notin Details(ret.value)
        /\ Len(log) = 2

C3_Witness ==
    /\ pc = "returned"
    /\ enable_smtp
    /\ arg = IN_GOOD_RAW
    /\ Len(log) = 2
    /\ log[1].out = NXDOMAIN.cls
    /\ log[2].out = NoAnswer.cls
    /\ ret.value.dns_valid = FALSE

\* C4: in every result validate_email returns, is_valid equals
\* format_valid AND blacklist_check AND dns_valid AND (smtp_valid is not False).
C4_VerdictAssembly ==
    pc = "returned" =>
        (ret.value.is_valid <=>
            (/\ ret.value.format_valid
             /\ ret.value.blacklist_check
             /\ ret.value.dns_valid
             /\ ret.value.smtp_valid # SV_FALSE))

C4_Witness ==
    /\ pc = "returned"
    /\ enable_smtp
    /\ ret.value.is_valid
    /\ ret.value.smtp_valid = SV_NONE
    /\ "smtp" \in Details(ret.value)

\* the classes of the network-level failures of the SMTP stage: socket timeout,
\* refused or failed connection, name resolution failure, lost connection
NetworkFailures ==
    {SocketTimeout.cls, ConnectionRefused.cls, SMTPConnectError.cls, GaiError.cls,
     SMTPServerDisconnected.cls}

\* the SMTP stage ran in the ended call and met a network-level failure on connect,
\* HELO, MAIL FROM or RCPT TO
SmtpNetworkFailure ==
    \E k \in EventsOf({"smtp.connect", "smtp.helo", "smtp.mail", "smtp.rcpt"}) :
        log[k].out \in NetworkFailures

\* the positions of the log where RCPT TO was answered with the given code
RcptAnswered(code) == {k \in EventsOf({"smtp.rcpt"}) : log[k].out = str_int(code)}

\* C5: when the SMTP stage meets a network-level exception, the result has smtp_valid
\* unknown, an error_message, and is_valid = true.
C5_NetworkFailureInconclusive ==
    (pc = "returned" /\ SmtpNetworkFailure) =>
        /\ ret.value.smtp_valid = SV_NONE
        /\ truthy(ret.value.error_message)
        /\ ret.value.is_valid

\* C6: a result whose first three stages passed has is_valid = false only if RCPT TO
\* was issued and answered 550.
C6_OnlyRejectionInvalidates ==
    (pc = "returned" /\ ThreeStagesPassed(ret.value) /\ ~ret.value.is_valid) =>
        RcptAnswered(CODE_REJECTED) # {}

\* C7: when RCPT TO is answered, the code decides: 250 gives smtp_valid = true,
\* is_valid = true and no error_message; 550 gives smtp_valid = false and is_valid =
\* false; any other code gives smtp_valid unknown, an error_message and is_valid =
\* true; and the reply text is recorded in validation_details.smtp.
C7_RcptCodeDecides ==
    (pc = "returned" /\ EventsOf({"smtp.rcpt"}) # {}
        /\ \A k \in EventsOf({"smtp.rcpt"}) : log[k].out \notin NetworkFailures) =>
        /\ "smtp" \in Details(ret.value)
        /\ ~ret.value.validation_details["smtp"].smtp_response.is_none
        /\ RcptAnswered(CODE_OK) # {} =>
              /\ ret.value.smtp_valid = SV_TRUE
              /\ ret.value.is_valid
              /\ ret.value.error_message = None
        /\ RcptAnswered(CODE_REJECTED) # {} =>
              /\ ret.value.smtp_valid = SV_FALSE
              /\ ~ret.value.is_valid
        /\ RcptAnswered(CODE_TEMPFAIL) # {} =>
              /\ ret.value.smtp_valid = SV_NONE
              /\ truthy(ret.value.error_message)
              /\ ret.value.is_valid

\* C8: with enable_smtp false, every result has smtp_valid unknown and no smtp entry
\* in validation_details, the call performs no SMTP operation and no lookup beyond
\* the DNS stage's, and is_valid equals format_valid AND blacklist_check AND
\* dns_valid.
C8_SmtpDisabled ==
    (~enable_smtp /\ Ended) =>
        /\ pc = "returned"
        /\ ret.value.smtp_valid = SV_NONE
        /\ "smtp" \notin Details(ret.value)
        /\ EventsOf(SmtpOps) = {}
        /\ Len(log) <= 2
        /\ ret.value.is_valid <=> ThreeStagesPassed(ret.value)

C8_Witness ==
    /\ ~enable_smtp
    /\ pc = "returned"
    /\ arg = IN_GOOD
    /\ ThreeStagesPassed(ret.value)
    /\ ret.value.smtp_valid = SV_NONE
    /\ ret.value.is_valid

\* C9: validate_bulk returns one result per input, in the order of the inputs, without
\* dropping duplicates: result k is the result for input k (its email is the
\* normalized input k and its format verdict is that of input k), whatever stage
\* each input stopped at; while the loop runs, the results so far are those of the
\* inputs so far.
C9_BulkOrderPreserved ==
    /\ bpc \in {"for", "returned"} =>
          /\ Len(results) = i
          /\ \A k \in 1..Len(results) :
                /\ results[k].email = lower(strip(emails[k]))
                /\ results[k].format_valid = validate_format(lower(strip(emails[k])))
    /\ bpc = "returned" =>
          /\ bulk_ret.returned
          /\ bulk_ret.value = results
          /\ Len(bulk_ret.value) = Len(emails)

C9_Witness ==
    /\ bpc = "returned"
    /\ Len(emails) = 2
    /\ emails[1] = emails[2]
    /\ Len(bulk_ret.value) = 2
    /\ bulk_ret.value[1].dns_valid
    /\ ~bulk_ret.value[2].dns_valid

\* C10: validate_email never raises, whatever the collaborators do: every call ends
\* by returning a result record; a result whose error_message begins "Validation
\* error" has is_valid = false; and no batch is aborted: validate_bulk returns, with a
\* result for every input.
C10_NeverRaises ==
    /\ pc # "raised"
    /\ bpc # "raised"
    /\ Ended => ret.kind = "returned"
    /\ (pc = "returned" /\ ret.value.error_message # None
            /\ Head(ret.value.error_message) = "Validation error: ") => ~ret.value.is_valid
    /\ bpc = "returned" => Len(bulk_ret.value) = Len(emails)

C10_Witness ==
    /\ bpc = "returned"
    /\ Len(emails) = 2
    /\ Len(bulk_ret.value) = 2
    /\ "dns" \in Details(bulk_ret.value[1])
    /\ bulk_ret.value[1].validation_details["dns"].error = DnsTimeout.text
    /\ bulk_ret.value[2].is_valid

-----------------------------------------------------------------------------
(* C11..C20 *)

\* the returned result stopped at the DNS stage
DnsStageFailed(r) == r.format_valid /\ r.blacklist_check /\ ~r.dns_valid

\* the positions of the log where a DNS query ended in an error of the resolver other
\* than "no such records"
ResolverErrors ==
    {k \in EventsOf(DnsOps) : log[k].out \notin (NoRecords \cup {"answer"})}

\* C11: whenever the DNS stage fails, error_message is the resolver's error text if
\* the resolver raised an error and "No valid DNS records found" otherwise; it is
\* never None.
C11_DnsFailureMessage ==
    (pc = "returned" /\ DnsStageFailed(ret.value)) =>
        /\ ret.value.error_message # None
        /\ ResolverErrors # {} =>
              ret.value.error_message = ret.value.validation_details["dns"].error
        /\ ResolverErrors = {} =>
              ret.value.error_message = <<"No valid DNS records found">>

\* C12: when the blacklist stage fails, error_message is "Disposable email address"
\* if the domain is in the disposable set, else "Invalid/test domain" if it is in the
\* invalid-domain set, else "Domain is blacklisted"; validation_details.blacklist
\* records both sub-flags.
C12_BlacklistMessagePriority ==
    (pc = "returned" /\ ret.value.format_valid /\ ~ret.value.blacklist_check) =>
        LET d == lower(domain_of(ret.value.email))
            bl == ret.value.validation_details["blacklist"]
        IN  /\ "blacklist" \in Details(ret.value)
            /\ bl.is_disposable = (d \in disposable_domains)
            /\ bl.is_invalid_domain = (d \in invalid_domains)
            /\ ret.value.error_message =
                  IF d \in disposable_domains THEN <<"Disposable email address">>
                  ELSE IF d \in invalid_domains THEN <<"Invalid/test domain">>
                  ELSE <<"Domain is blacklisted">>

C12_Witness ==
    /\ pc = "returned"
    /\ arg = IN_DISPOSABLE
    /\ ret.value.error_message = <<"Disposable email address">>
    /\ ret.value.validation_details["blacklist"].is_disposable
    /\ ~ret.value.validation_details["blacklist"].is_invalid_domain

\* the call that ended got the same answers from the collaborators as the remembered
\* call of the same loop
SameAnswers == caller = "app" /\ earlier.set /\ earlier.answers = log

\* C13: two calls of validate_email on the same address, with the same validator
\* (enable_smtp, timeout) and the same answers of the DNS and SMTP collaborators,
\* return the same is_valid, format_valid, blacklist_check, dns_valid and smtp_valid,
\* whichever addresses were validated in between.
C13_SameCallSameVerdict ==
    (pc = "returned" /\ SameAnswers /\ earlier.arg = arg) =>
        /\ ret.value.is_valid = earlier.value.is_valid
        /\ ret.value.format_valid = earlier.value.format_valid
        /\ ret.value.blacklist_check = earlier.value.blacklist_check
        /\ ret.value.dns_valid = earlier.value.dns_valid
        /\ ret.value.smtp_valid = earlier.value.smtp_valid

C13_Witness ==
    /\ pc = "returned"
    /\ SameAnswers
    /\ earlier.arg = IN_BOB
    /\ arg = IN_BOB
    /\ earlier.between = <<IN_TEST_DOMAIN>>
    /\ enable_smtp
    /\ ret.value.is_valid
    /\ earlier.value.is_valid

\* C14: validation_details has an entry for a stage exactly when the stage executed:
\* "blacklist" iff the format stage passed, "dns" iff the blacklist stage passed,
\* "smtp" iff the DNS stage passed and enable_smtp is true; the format stage adds none.
C14_DetailsOfExecutedStages ==
    pc = "returned" =>
        /\ Details(ret.value) \subseteq {"blacklist", "dns", "smtp"}
        /\ "blacklist" \in Details(ret.value) <=> ret.value.format_valid
        /\ "dns" \in Details(ret.value) <=> ret.value.blacklist_check
        /\ "smtp" \in Details(ret.value) <=> (ret.value.dns_valid /\ enable_smtp)

C14_Witness ==
    /\ pc = "returned"
    /\ enable_smtp
    /\ Details(ret.value) = {"blacklist", "dns", "smtp"}
    /\ ret.value.smtp_valid = SV_TRUE

\* C15: error_message is None in every result where format, blacklist and DNS passed
\* and either SMTP was disabled or RCPT TO returned 250; and when a stage failed,
\* error_message describes the first stage that failed.
C15_ErrorMessageOfFirstFailure ==
    pc = "returned" =>
        /\ (ThreeStagesPassed(ret.value) /\ (~enable_smtp \/ RcptAnswered(CODE_OK) # {})) =>
              ret.value.error_message = None
        /\ ~ret.value.format_valid =>
              ret.value.error_message = <<"Invalid email format">>
        /\ (ret.value.format_valid /\ ~ret.value.blacklist_check) =>
              ret.value.error_message \in
                  {<<"Disposable email address">>, <<"Invalid/test domain">>,
                   <<"Domain is blacklisted">>}
        /\ DnsStageFailed(ret.value) => truthy(ret.value.error_message)
        /\ (ThreeStagesPassed(ret.value) /\ RcptAnswered(CODE_REJECTED) # {}) =>
              ret.value.error_message = <<"Email address does not exist on server">>

\* C16: validate_email normalizes its argument before any stage: the result's email
\* is the argument without surrounding whitespace and lower-cased, every stage
\* (format, blacklist, DNS, SMTP) works on that string, and an argument and its
\* normalized form give the same result.
C16_NormalizedFirst ==
    pc = "returned" =>
        LET email == ret.value.email
        IN  /\ email = Normalized
            /\ email # <<>> => (email[1] \notin Whitespace /\ email[Len(email)] \notin Whitespace)
            /\ \A k \in 1..Len(email) : email[k] \notin Uppercase
            /\ ret.value.format_valid = validate_format(email)
            /\ "blacklist" \in Details(ret.value) =>
                  ret.value.validation_details["blacklist"] =
                      check_blacklist(email, disposable_domains, invalid_domains)
            /\ \A k \in EventsOf(DnsOps) : log[k].target = domain_of(email)
            /\ \A k \in EventsOf({"smtp.rcpt"}) : log[k].target = email
            /\ (SameAnswers /\ (arg = lower(strip(earlier.arg)) \/ earlier.arg = lower(strip(arg)))) =>
                  ret.value = earlier.value

C16_Witness ==
    /\ pc = "returned"
    /\ SameAnswers
    /\ earlier.arg = IN_GOOD_RAW
    /\ arg = IN_BOB
    /\ RcptAnswered(CODE_OK) # {}
    /\ ret.value = earlier.value
    /\ ret.value.email = IN_BOB

\* C17: in every result, is_valid, format_valid, blacklist_check and dns_valid are
\* strict booleans and smtp_valid is one of True, False and None.
C17_StrictBooleans ==
    pc = "returned" =>
        /\ ret.value.is_valid \in BOOLEAN
        /\ ret.value.format_valid \in BOOLEAN
        /\ ret.value.blacklist_check \in BOOLEAN
        /\ ret.value.dns_valid \in BOOLEAN
        /\ ret.value.smtp_valid \in {SV_TRUE, SV_FALSE, SV_NONE}

C17_Witness ==
    /\ pc = "returned"
    /\ RcptAnswered(CODE_TEMPFAIL) # {}
    /\ ret.value.smtp_valid = SV_NONE
    /\ ret.value.is_valid = TRUE
    /\ ret.value.dns_valid = TRUE

\* C18: every blocking network operation of a validation (the MX and A lookups of the
\* DNS stage, the MX lookup of the SMTP stage, connect, HELO, MAIL FROM, RCPT TO) is
\* invoked with the validator's configured timeout as its bound.
C18_EveryOperationBounded ==
    \A k \in 1..Len(log) : log[k].timeout = <<timeout>>

\* C19: validate_bulk is sequential with a delay between calls: a validation starts
\* only after the previous one has returned and one delay has elapsed; n inputs take
\* exactly n - 1 delays (none for an empty or one-element list), and no two
\* validations overlap.
C19_SequentialWithDelays ==
    /\ bpc = "in_call" =>
          /\ Len(results) = i
          /\ sleeps = i
          /\ arg = emails[i + 1]
    /\ bpc = "for" =>
          /\ pc = "idle"
          /\ Len(results) = i
          /\ sleeps = IF i < Len(emails) \/ i = 0 THEN i ELSE i - 1
    /\ bpc = "returned" =>
          sleeps = IF Len(emails) = 0 THEN 0 ELSE Len(emails) - 1

C19_Witness ==
    /\ bpc = "returned"
    /\ Len(emails) = 2
    /\ sleeps = 1
    /\ bulk_ret.value[1].format_valid
    /\ ~bulk_ret.value[2].format_valid

\* C20: in the SMTP stage the commands are issued in the order HELO, MAIL FROM,
\* RCPT TO on one connection: MAIL FROM only after HELO was answered 250, RCPT TO only
\* after MAIL FROM was answered 250, at most one RCPT TO per validation, and DATA is
\* never sent.
C20_CommandOrder ==
    /\ \A k \in EventsOf({"smtp.helo"}) :
          k > 1 /\ log[k - 1].op = "smtp.connect" /\ log[k - 1].out = "connected"
    /\ \A k \in EventsOf({"smtp.mail"}) :
          k > 1 /\ log[k - 1].op = "smtp.helo" /\ log[k - 1].out = str_int(CODE_OK)
    /\ \A k \in EventsOf({"smtp.rcpt"}) :
          k > 1 /\ log[k - 1].op = "smtp.mail" /\ log[k - 1].out = str_int(CODE_OK)
    /\ Cardinality(EventsOf({"smtp.rcpt"})) <= 1
    /\ Cardinality(EventsOf({"smtp.connect"})) <= 1
    /\ \A k \in 1..Len(log) : log[k].op \in DnsOps \cup SmtpOps

C20_Witness ==
    /\ pc = "returned"
    /\ Len(log) >= 4
    /\ log[Len(log)].op = "smtp.quit"
    /\ log[Len(log) - 1].op = "smtp.mail"
    /\ log[Len(log) - 1].out = str_int(CODE_REJECTED)

-----------------------------------------------------------------------------
(* C21..C30 *)

\* the positions of validate_email where validate_smtp is running
SmtpPositions == {"smtp_mx", "smtp_connect", "smtp_helo", "smtp_mail", "smtp_rcpt", "smtp_exit"}

\* C21: in the DNS stage the A lookup is performed if and only if the MX lookup found
\* no records (NXDOMAIN or an empty answer); has_mx and has_a are never both true;
\* dns_valid equals has_mx OR has_a; and the MX record list stored in
\* validation_details.dns is non-empty exactly when has_mx is true.
C21_AFallback ==
    (pc = "returned" /\ "dns" \in Details(ret.value)) =>
        LET dns == ret.value.validation_details["dns"]
        IN  /\ Len(log) >= 1 /\ log[1].op \in DnsOps /\ log[1].what = "MX"
            /\ (\E k \in EventsOf(DnsOps) : log[k].what = "A") <=> log[1].out \in NoRecords
            /\ \A k \in EventsOf(DnsOps) : log[k].what = "A" => k = 2
            /\ ~(dns.has_mx /\ dns.has_a)
            /\ ret.value.dns_valid = (dns.has_mx \/ dns.has_a)
            /\ (dns.mx_records # <<>>) <=> dns.has_mx

C21_Witness ==
    /\ pc = "returned"
    /\ ~enable_smtp
    /\ Len(log) = 2
    /\ log[1].out = NoAnswer.cls
    /\ log[2].what = "A" /\ log[2].out = "answer"
    /\ ret.value.validation_details["dns"].has_a
    /\ ~ret.value.validation_details["dns"].has_mx
    /\ ret.value.dns_valid

\* C22: the SMTP stage is reached only when stage 3 found at least one MX record:
\* whenever validate_smtp runs inside validate_email, validation_details.dns has
\* has_mx = true and a non-empty mx_records list.
C22_SmtpOnlyWithMx ==
    /\ pc \in SmtpPositions =>
          /\ result.validation_details["dns"].has_mx
          /\ result.validation_details["dns"].mx_records # <<>>
    /\ (pc = "returned" /\ "smtp" \in Details(ret.value)) =>
          /\ ret.value.validation_details["dns"].has_mx
          /\ ret.value.validation_details["dns"].mx_records # <<>>

\* the preferences of the MX records the resolver answers with
MxPreferences == {<<"1", "0">>, <<"2", "0">>}

\* C23: the mail exchanger the SMTP stage connects to is the first MX record that
\* stage 3 stored in validation_details.dns.mx_records, and the SMTP stage makes no
\* DNS query of its own.
C23_ConnectsToStage3Mx ==
    /\ pc \in SmtpPositions \cup {"returned"} =>
          LET res == IF pc = "returned" THEN ret.value ELSE result
          IN  \A k \in EventsOf({"smtp.connect"}) :
                 /\ res.validation_details["dns"].mx_records # <<>>
                 /\ \E p \in MxPreferences :
                       res.validation_details["dns"].mx_records[1] =
                           p \o <<" ">> \o log[k].target \o <<".">>
    /\ Cardinality({k \in EventsOf(DnsOps) : log[k].what = "MX"}) <= 1

\* C24: no validate_email or validate_bulk call changes the validator's state
\* (enable_smtp, timeout, the disposable-domain set, the invalid-domain set), and a
\* result once returned is modified by no later call: the results a batch has
\* collected, the list a batch returned and a result the app loop has taken stay as
\* they are.
C24_NoSharedState ==
    [][/\ UNCHANGED validatorVars
       /\ Len(results') >= Len(results) \/ bpc = "idle"
       /\ \A k \in 1..Len(results) : bpc # "idle" => results'[k] = results[k]
       /\ bulk_ret.returned => bulk_ret' = bulk_ret
       /\ earlier.set => (earlier'.set /\ earlier'.value = earlier.value)]_vars

C24_Witness ==
    /\ bpc = "returned"
    /\ Len(bulk_ret.value) = 2
    /\ bulk_ret.value[1] # bulk_ret.value[2]
    /\ bulk_ret.value[1].email = bulk_ret.value[2].email
    /\ enable_smtp
    /\ timeout = DEFAULT_TIMEOUT
    /\ disposable_domains = VALIDATOR_DISPOSABLE_DOMAINS
    /\ invalid_domains = VALIDATOR_INVALID_DOMAINS

\* C27: every result of validate_email with is_valid = false carries a non-empty
\* error_message.
C27_InvalidHasReason ==
    (pc = "returned" /\ ~ret.value.is_valid) =>
        /\ ret.value.error_message # None
        /\ ret.value.error_message # <<>>
        /\ ret.value.error_message # <<"">>

\* the format_valid that validate_email returns for the argument e (lines 237, 252)
format_valid_of(e) == validate_format(lower(strip(e)))

count_at(s) == Cardinality({k \in 1..Len(s) : s[k] = "@"})
at_position(s) == CHOOSE k \in 1..Len(s) : s[k] = "@"
local_part(s) == SubSeq(s, 1, at_position(s) - 1)
domain_part(s) == SubSeq(s, at_position(s) + 1, Len(s))

\* the dot rules of a part: it starts or ends with "." or contains ".."
dot_rule_broken(p) ==
    \/ p # <<>> /\ (p[1] = "." \/ p[Len(p)] = ".")
    \/ \E k \in 1..(Len(p) - 1) : p[k] = "." /\ p[k + 1] = "."

\* a domain label is empty, longer than 63 characters, or starts or ends with "-"
label_rule_broken(d) ==
    \E k \in 1..Len(split(d, ".")) :
        LET l == split(d, ".")[k]
        IN  \/ l = <<>>
            \/ Len(l) > LABEL_MIDDLE_MAX + 2
            \/ l[1] = "-"
            \/ l[Len(l)] = "-"

\* the rejections the claim lists
listed_rejection(s) ==
    \/ s = <<>>
    \/ Len(s) > MAX_EMAIL_LEN
    \/ count_at(s) # 1
    \/ /\ count_at(s) = 1
       /\ \/ Len(local_part(s)) > MAX_LOCAL_LEN
          \/ dot_rule_broken(local_part(s))
          \/ dot_rule_broken(domain_part(s))
          \/ label_rule_broken(domain_part(s))

\* s has one "@" and only permitted characters on both sides of it
permitted_characters(s) ==
    /\ count_at(s) = 1
    /\ \A k \in 1..Len(local_part(s)) : local_part(s)[k] \in LocalChars
    /\ \A k \in 1..Len(domain_part(s)) : domain_part(s)[k] \in LabelChars \cup {"."}

-----------------------------------------------------------------------------
(* The follow-ups and the campaigns of src/sendgrid_client.py. *)

\* the positions of the sent history
Sendings == 1..Len(sent_history)

\* the entry of the schedule with this id
scheduled_entry(id) == followup_schedules.val[id]

C29_EveryCallAddsAnEntry ==
    /\ Len(followup_schedules.keys) = Len(schedule_calls)
    /\ \A p, q \in 1..Len(schedule_calls) : p < q => schedule_calls[p] # schedule_calls[q]

\* the elements of seq at the positions in S, in order, from position k on
RECURSIVE at_positions(_, _, _)
at_positions(seq, S, k) ==
    IF k > Len(seq) THEN <<>>
    ELSE (IF k \in S THEN <<seq[k]>> ELSE <<>>) \o at_positions(seq, S, k + 1)

\* C30: send_bulk_campaign attempts every recipient exactly once, in list order,
\* continuing after a failed send: on return total_sent + total_failed is the number
\* of recipients, total_sent is the length of successful_sends, total_failed is the
\* length of failed_sends, each recipient position is recorded in exactly one of the
\* two lists, and len(recipients) - 1 delays were inserted, none after the last
\* recipient (none at all for an empty list).
C30_CampaignAccounting ==
    campaign.returned =>
        LET r == campaign.run.results
            n == Len(campaign.recipients)
            failed == [k \in 1..Len(r.failed_sends) |-> r.failed_sends[k].email]
        IN  /\ campaign.run.attempts = campaign.recipients
            /\ r.total_sent + r.total_failed = n
            /\ r.total_sent = Len(r.successful_sends)
            /\ r.total_failed = Len(r.failed_sends)
            /\ \E S \in SUBSET (1..n) :
                  /\ r.successful_sends = at_positions(campaign.recipients, S, 1)
                  /\ failed = at_positions(campaign.recipients, (1..n) \ S, 1)
            /\ campaign.run.sleeps = IF n = 0 THEN 0 ELSE n - 1

\* a campaign of two recipients whose first send failed and whose second was accepted
C30_Witness ==
    /\ campaign.returned
    /\ Len(campaign.recipients) = 2
    /\ campaign.run.results.total_sent = 1
    /\ campaign.run.results.total_failed = 1
    /\ campaign.run.results.failed_sends[1].email = campaign.recipients[1]
    /\ campaign.run.results.successful_sends = <<campaign.recipients[2]>>
    /\ campaign.run.sleeps = 1

=============================================================================
